---- MODULE Spec2Model ----
\* A model of the LDAP authenticating reverse proxy (ldap_proxy.go): the
\* dispatcher ServeHTTP, the whitelist matcher, the sign-in and sign-out
\* handlers, and the per-request authentication engine Authenticate.
\*
\* Representation.  A Go string the code takes apart (strings.SplitN,
\* strings.HasPrefix, strings.ToLower, base64 decoding) is a sequence of
\* one-character strings, so "" is <<>>.  A URL path is the sequence of its
\* segments ("/svc/health" is <<"svc", "health">>).  A Go pointer is a
\* sequence of length at most one: Nil is <<>>, a pointer to x is <<x>>.
EXTENDS Integers, Sequences, FiniteSets, TLC

VARIABLES
    \* configuration, fixed by NewLdapProxy
    CookieRefresh, HtpasswdFile, PassBasicAuth, PassUserHeaders,
    SetXAuthRequest, skipAuthPreflight, compiledPathRegex, skipAuthIPs,
    LdapGroups,
    \* the request being served and what serving it did
    pc, req, rw, upstream, authResult, calls, ldapConn

cfgvars == <<CookieRefresh, HtpasswdFile, PassBasicAuth, PassUserHeaders,
             SetXAuthRequest, skipAuthPreflight, compiledPathRegex,
             skipAuthIPs, LdapGroups>>

vars == <<CookieRefresh, HtpasswdFile, PassBasicAuth, PassUserHeaders,
          SetXAuthRequest, skipAuthPreflight, compiledPathRegex,
          skipAuthIPs, LdapGroups, pc, req, rw, upstream, authResult,
          calls, ldapConn>>

-----------------------------------------------------------------------------
\* Bounds of the model.

\* Session ages (now - timestamp) range over 0..MaxAge.
MaxAge == 3

-----------------------------------------------------------------------------
\* Pointers and strings.

Nil == <<>>

Some(x) == <<x>>

Deref(p) == p[1]

\* The member of a one-element set.  A step of a computation is applied to
\* the value of the step before it by binding that value in a one-element
\* set: {Step(a) : a \in {first}}.
Only(S) == CHOOSE x \in S : TRUE

\* "" as a sequence of characters.
Empty == <<>>

\* strings.HasPrefix(s, prefix)
HasPrefix(s, prefix) ==
    /\ Len(s) >= Len(prefix)
    /\ SubSeq(s, 1, Len(prefix)) = prefix

\* The position of the first occurrence of character sep in s, 0 if none.
RECURSIVE IndexFrom(_, _, _)
IndexFrom(s, sep, i) ==
    IF i > Len(s) THEN 0
    ELSE IF s[i] = sep THEN i
    ELSE IndexFrom(s, sep, i + 1)

\* strings.SplitN(s, sep, 2) for a one-character separator: s cut at the
\* first sep, or s alone when it holds no sep.
SplitN2(s, sep) ==
    LET i == IndexFrom(s, sep, 1)
    IN  IF i = 0 THEN <<s>>
        ELSE <<SubSeq(s, 1, i - 1), SubSeq(s, i + 1, Len(s))>>

UpperLetters ==
    <<"A", "B", "C", "D", "E", "F", "G", "H", "I", "J", "K", "L", "M",
      "N", "O", "P", "Q", "R", "S", "T", "U", "V", "W", "X", "Y", "Z">>

LowerLetters ==
    <<"a", "b", "c", "d", "e", "f", "g", "h", "i", "j", "k", "l", "m",
      "n", "o", "p", "q", "r", "s", "t", "u", "v", "w", "x", "y", "z">>

Digits == <<"0", "1", "2", "3", "4", "5", "6", "7", "8", "9">>

\* The members of a sequence, and the position of each member of a sequence
\* without repetitions.
Range(s) == {s[i] : i \in 1..Len(s)}

PositionIn(s) == [c \in Range(s) |-> CHOOSE i \in 1..Len(s) : s[i] = c]

UpperPosition == PositionIn(UpperLetters)

\* The lower-case form of one character.
LowerChar(c) ==
    IF c \in DOMAIN UpperPosition THEN LowerLetters[UpperPosition[c]] ELSE c

\* strings.ToLower(s)
ToLower(s) == [i \in 1..Len(s) |-> LowerChar(s[i])]

-----------------------------------------------------------------------------
\* encoding/base64, StdEncoding.DecodeString.

\* The printable ASCII characters, code 32 first.  The four characters a
\* string literal cannot hold are written by name.
Ascii ==
    <<" ", "!", "DQUOTE", "#", "$", "%", "&", "APOS", "(", ")", "*", "+",
      ",", "-", ".", "/", "0", "1", "2", "3", "4", "5", "6", "7",
      "8", "9", ":", ";", "<", "=", ">", "?", "@", "A", "B", "C",
      "D", "E", "F", "G", "H", "I", "J", "K", "L", "M", "N", "O",
      "P", "Q", "R", "S", "T", "U", "V", "W", "X", "Y", "Z", "[",
      "BSLASH", "]", "^", "_", "GRAVE", "a", "b", "c", "d", "e", "f", "g",
      "h", "i", "j", "k", "l", "m", "n", "o", "p", "q", "r", "s",
      "t", "u", "v", "w", "x", "y", "z", "{", "|", "}", "~">>

\* The character of one decoded byte.
Chr(b) == IF b >= 32 /\ b <= 126 THEN Ascii[b - 31] ELSE "NP"

\* The standard base64 alphabet; the value of a character is its position - 1.
B64Alphabet == UpperLetters \o LowerLetters \o Digits \o <<"+", "/">>

B64Position == PositionIn(B64Alphabet)

IsB64Char(c) == c \in DOMAIN B64Position

B64Val(c) == IF IsB64Char(c) THEN B64Position[c] - 1 ELSE 0

\* The bytes of one quantum of four characters, padding included; <<"err">>
\* stands for CorruptInputError.  Padding is legal in the last quantum only.
B64Quantum(q, last) ==
    LET a == B64Val(q[1])
        b == B64Val(q[2])
        c == B64Val(q[3])
        d == B64Val(q[4])
    IN  IF ~IsB64Char(q[1]) \/ ~IsB64Char(q[2]) THEN <<"err">>
        ELSE IF q[3] = "=" /\ q[4] = "=" /\ last
             THEN <<Chr(((a * 4) + (b \div 16)) % 256)>>
        ELSE IF ~IsB64Char(q[3]) THEN <<"err">>
        ELSE IF q[4] = "=" /\ last
             THEN <<Chr(((a * 4) + (b \div 16)) % 256),
                    Chr(((b * 16) + (c \div 4)) % 256)>>
        ELSE IF ~IsB64Char(q[4]) THEN <<"err">>
        ELSE <<Chr(((a * 4) + (b \div 16)) % 256),
               Chr(((b * 16) + (c \div 4)) % 256),
               Chr(((c * 64) + (d)) % 256)>>

RECURSIVE B64Groups(_)
B64Groups(s) ==
    IF Len(s) = 0 THEN <<>>
    ELSE LET head == B64Quantum(SubSeq(s, 1, 4), Len(s) = 4)
             rest == B64Groups(SubSeq(s, 5, Len(s)))
         IN  IF head = <<"err">> \/ rest = <<"err">> THEN <<"err">>
             ELSE head \o rest

\* DecodeString(s): [err |-> TRUE] or the decoded string.
DecodeString(s) ==
    IF Len(s) % 4 # 0 THEN [err |-> TRUE, b |-> Empty]
    ELSE LET out == B64Groups(s)
         IN  IF out = <<"err">> THEN [err |-> TRUE, b |-> Empty]
             ELSE [err |-> FALSE, b |-> out]

AsciiPosition == PositionIn(Ascii)

\* The byte of one character (the inverse of Chr on printable ASCII).
Ord(c) == AsciiPosition[c] + 31

\* The four characters encoding up to three bytes, padded with "=".
B64Encode3(g) ==
    LET n  == Len(g)
        b1 == Ord(g[1])
        b2 == IF n >= 2 THEN Ord(g[2]) ELSE 0
        b3 == IF n >= 3 THEN Ord(g[3]) ELSE 0
    IN  <<B64Alphabet[(b1 \div 4) + 1],
          B64Alphabet[((b1 % 4) * 16) + (b2 \div 16) + 1],
          IF n >= 2 THEN B64Alphabet[((b2 % 16) * 4) + (b3 \div 64) + 1] ELSE "=",
          IF n >= 3 THEN B64Alphabet[(b3 % 64) + 1] ELSE "=">>

\* StdEncoding.EncodeToString(s), as http.Request.SetBasicAuth uses it.
RECURSIVE EncodeToString(_)
EncodeToString(s) ==
    IF Len(s) = 0 THEN <<>>
    ELSE IF Len(s) <= 3 THEN B64Encode3(s)
    ELSE B64Encode3(SubSeq(s, 1, 3)) \o EncodeToString(SubSeq(s, 4, Len(s)))

BasicScheme == <<"B", "a", "s", "i", "c">>

\* The Authorization value req.SetBasicAuth(user, password) sets.
BasicAuthValue(user, password) ==
    BasicScheme \o <<" ">> \o EncodeToString(user \o <<":">> \o password)

-----------------------------------------------------------------------------
\* net.ParseIP and net.IPNet.Contains, for IPv4.

\* s cut at every sep.
RECURSIVE SplitAll(_, _)
SplitAll(s, sep) ==
    LET i == IndexFrom(s, sep, 1)
    IN  IF i = 0 THEN <<s>>
        ELSE <<SubSeq(s, 1, i - 1)>> \o SplitAll(SubSeq(s, i + 1, Len(s)), sep)

DigitPosition == PositionIn(Digits)

\* The value of a string of decimal digits, -1 if it is not one (empty, a
\* character that is no digit, more than three digits).
RECURSIVE DecimalFrom(_, _, _)
DecimalFrom(s, i, acc) ==
    IF i > Len(s) THEN acc
    ELSE IF s[i] \notin DOMAIN DigitPosition THEN -1
    ELSE DecimalFrom(s, i + 1, acc * 10 + (DigitPosition[s[i]] - 1))

Octet(s) ==
    IF Len(s) = 0 \/ Len(s) > 3 THEN -1
    ELSE LET v == DecimalFrom(s, 1, 0)
         IN  IF v > 255 THEN -1 ELSE v

\* net.ParseIP(s): a pointer to the four octets of a dotted quad, Nil for any
\* other text.  (Go also parses IPv6 text; no IPv4 block contains such an
\* address, so for the whitelist it behaves as Nil does.)
ParseIP(s) ==
    LET parts == SplitAll(s, ".")
    IN  IF Len(parts) # 4 THEN Nil
        ELSE IF \E i \in 1..4 : Octet(parts[i]) = -1 THEN Nil
        ELSE Some([i \in 1..4 |-> Octet(parts[i])])

Pow2(n) == IF n = 0 THEN 1 ELSE IF n = 1 THEN 2 ELSE IF n = 2 THEN 4
           ELSE IF n = 3 THEN 8 ELSE IF n = 4 THEN 16 ELSE IF n = 5 THEN 32
           ELSE IF n = 6 THEN 64 ELSE IF n = 7 THEN 128 ELSE 256

\* The number of leading bits of octet i that a prefix of `ones` bits covers.
MaskBits(ones, i) ==
    LET k == ones - 8 * (i - 1)
    IN  IF k < 0 THEN 0 ELSE IF k > 8 THEN 8 ELSE k

\* c.Contains(ip) for the block c = [IP, ones] and the address ip.
Contains(c, ip) ==
    \A i \in 1..4 :
        ip[i] \div Pow2(8 - MaskBits(c.ones, i))
            = c.IP[i] \div Pow2(8 - MaskBits(c.ones, i))

-----------------------------------------------------------------------------
\* regexp.Regexp.MatchString for the two shapes of skip-auth pattern the
\* model configures: `.*/a/b$` is [kind |-> "suffix", segs |-> <<"a", "b">>]
\* and `^/a/b(/|$)` is [kind |-> "prefix", segs |-> <<"a", "b">>].
MatchString(u, path) ==
    /\ Len(path) >= Len(u.segs)
    /\ IF u.kind = "suffix"
       THEN SubSeq(path, Len(path) - Len(u.segs) + 1, Len(path)) = u.segs
       ELSE SubSeq(path, 1, Len(u.segs)) = u.segs

-----------------------------------------------------------------------------
\* The fixed part of the configuration (NewLdapProxy).

RobotsPath == <<"robots.txt">>

PingPath == <<"ping">>

ProxyPrefix == <<"lp">>

SignInPath == ProxyPrefix \o <<"sign_in">>

SignOutPath == ProxyPrefix \o <<"sign_out">>

AuthOnlyPath == ProxyPrefix \o <<"auth">>

RealIPHeader == "X-Real-IP"

ProxyIPHeader == "X-Forwarded-For"

BasicAuthPassword == <<"s", "h">>

\* The absolute lifetime of a session cookie.
CookieExpire == 2

\* The refresh interval when refresh is enabled (0 disables it).
RefreshAfter == 1

-----------------------------------------------------------------------------
\* Sessions, cookies and the collaborators of ldap_proxy.go.

CookieName == "_ldap_proxy"

CookieSeed == "seed"

\* The time at which the request is served; a cookie signed at time t has
\* age Now - t.
Now == MaxAge

\* &SessionState{User: user}: a session made by a credential check.
NewSession(user) == [User |-> user, Email |-> Empty, Age |-> 0]

\* cookie.SignedValue(seed, name, value, now)
SignedValue(seed, name, value, now) ==
    [name |-> name, payload |-> value, timestamp |-> now, mac |-> seed,
     wellFormed |-> TRUE]

\* MakeSessionCookie and makeCookie: the Set-Cookie the response carries.
\* A non-empty value is signed.  (Domain, HttpOnly and Secure are copied
\* from the configuration and read by no operation; they are left out.)
MakeSessionCookie(value, expiration, now) ==
    [Name    |-> CookieName,
     Value   |-> IF value # Empty
                 THEN Some(SignedValue(CookieSeed, CookieName, value, now))
                 ELSE Nil,
     Path    |-> "/",
     Expires |-> now + expiration]

\* The identity-allow predicate handed to NewLdapProxy.
ValidEmails == {<<"o", "@", "y">>}

Validator(email) == email \in ValidEmails

\* HtpasswdFile.Validate(user, passwd) on the file f.
Validate(f, user, passwd) == <<user, passwd>> \in f

\* LoadCookiedSession(req): the session of the request's cookie and its age
\* when the cookie verifies (well formed, MAC made with the proxy's seed for
\* this cookie name); otherwise no session and an error.
LoadCookiedSession(r) ==
    IF r.Cookie = Nil
    THEN [session |-> Nil, sessionAge |-> 0, err |-> TRUE]
    ELSE LET c == Deref(r.Cookie)
         IN  IF c.wellFormed /\ c.mac = CookieSeed /\ c.name = CookieName
             THEN [session    |-> Some([User  |-> c.payload.User,
                                        Email |-> c.payload.Email,
                                        Age   |-> Now - c.timestamp]),
                   sessionAge |-> Now - c.timestamp,
                   err        |-> FALSE]
             ELSE [session |-> Nil, sessionAge |-> 0, err |-> TRUE]

\* session.IsExpired(): the absolute age exceeds the configured lifetime.
IsExpired(s) == s.Age > CookieExpire

\* SaveSession(rw, req, s) when signing succeeds: the response gains the
\* signed session cookie.
SaveSession(w, s) ==
    [w EXCEPT !.cookies =
        Append(@, MakeSessionCookie([User |-> s.User, Email |-> s.Email],
                                    CookieExpire, Now))]

\* ClearSessionCookie(rw, req): the response gains an empty, already expired
\* session cookie.
ClearSessionCookie(w) ==
    [w EXCEPT !.cookies = Append(@, MakeSessionCookie(Empty, -1, Now))]

\* A Set-Cookie that issues a session (SaveSession) / that deletes it.
IsSessionCookie(c) == c.Value # Nil

IsClearCookie(c) == c.Value = Nil

\* The response before the handler writes anything: no status written
\* (status 0), no cookie, no header, no page.
NoHeader == <<>>

FreshResponse ==
    [status |-> 0, cookies |-> <<>>, XAuthRequestUser |-> NoHeader,
     XAuthRequestEmail |-> NoHeader, LAPAuth |-> NoHeader,
     page |-> "", Redirect |-> <<>>, Location |-> <<>>, failed |-> FALSE]

-----------------------------------------------------------------------------
\* The whitelist matcher.

\* getRemoteAddr(req): the peer address, replaced by the real-IP header when
\* that is set, replaced in turn by the proxy-IP header when that is set.
getRemoteAddr(r) ==
    LET remoteAddrstr == SplitN2(r.RemoteAddr, ":")[1]
        ip0 == ParseIP(remoteAddrstr)
        ip1 == IF r.Header[RealIPHeader] # Empty
               THEN ParseIP(r.Header[RealIPHeader]) ELSE ip0
    IN  IF r.Header[ProxyIPHeader] # Empty
        THEN ParseIP(r.Header[ProxyIPHeader]) ELSE ip1

\* IsWhitelistedIP(remoteAddr)
IsWhitelistedIP(remoteAddr) ==
    IF remoteAddr = Nil THEN FALSE
    ELSE \E i \in 1..Len(skipAuthIPs) :
            Contains(skipAuthIPs[i], Deref(remoteAddr))

\* IsWhitelistedPath(path)
IsWhitelistedPath(path) ==
    \E i \in 1..Len(compiledPathRegex) :
        MatchString(compiledPathRegex[i], path)

\* IsWhitelistedRequest(req)
IsWhitelistedRequest(r) ==
    LET isPreflightRequestAllowed == skipAuthPreflight /\ r.Method = "OPTIONS"
    IN  \/ isPreflightRequestAllowed
        \/ IsWhitelistedPath(r.Path)
        \/ IsWhitelistedIP(getRemoteAddr(r))

-----------------------------------------------------------------------------
\* CheckBasicAuth(req): [session, err].
CheckBasicAuth(r) ==
    LET auth == r.Header["Authorization"]
        s    == SplitN2(auth, " ")
        dec  == DecodeString(s[2])
        pair == SplitN2(dec.b, ":")
    IN  IF HtpasswdFile = Nil THEN [session |-> Nil, err |-> FALSE]
        ELSE IF auth = Empty THEN [session |-> Nil, err |-> FALSE]
        ELSE IF Len(s) # 2 \/ s[1] # BasicScheme
             THEN [session |-> Nil, err |-> TRUE]
        ELSE IF dec.err THEN [session |-> Nil, err |-> TRUE]
        ELSE IF Len(pair) # 2 THEN [session |-> Nil, err |-> TRUE]
        ELSE IF Validate(Deref(HtpasswdFile), pair[1], pair[2])
             THEN [session |-> Some(NewSession(pair[1])), err |-> FALSE]
        ELSE [session |-> Nil, err |-> TRUE]

-----------------------------------------------------------------------------
\* Authenticate(rw, req), one operator per step of the function.  The steps
\* pass on a record a of its locals (session, saveSession, clearSession,
\* revalidated), the response w and request header h it writes, the status
\* it returns (0 while it runs) and the log `calls` of the collaborators it
\* has called, each with its outcome.

Called(a, name, outcome) == [a EXCEPT !.calls = Append(@, <<name, outcome>>)]

\* AuthLoad that marks a cookie that failed to load for clearing.
AuthLoad_ClearOnError(r, w) ==
    LET l == LoadCookiedSession(r)
    IN  [session      |-> l.session,
         sessionAge   |-> l.sessionAge,
         saveSession  |-> FALSE,
         clearSession |-> l.err /\ r.Cookie # Nil,
         revalidated  |-> FALSE,
         status       |-> 0,
         w            |-> w,
         h            |-> r.Header,
         calls        |-> <<<<"LoadCookiedSession",
                              IF l.err THEN "err" ELSE "ok">>>>]

\* Lines 517-523: the locals and the cookie session.
AuthLoad(r, w) ==
    LET l == LoadCookiedSession(r)
    IN  [session      |-> l.session,
         sessionAge   |-> l.sessionAge,
         saveSession  |-> FALSE,
         clearSession |-> FALSE,
         revalidated  |-> FALSE,
         status       |-> 0,
         w            |-> w,
         h            |-> r.Header,
         calls        |-> <<<<"LoadCookiedSession",
                              IF l.err THEN "err" ELSE "ok">>>>]

\* RefreshDue without the test that refresh is enabled.
RefreshDue_NoZeroCheck(session, sessionAge) ==
    /\ session # Nil
    /\ sessionAge > CookieRefresh

\* RefreshDue with the age comparison turned around.
RefreshDue_Inverted(session, sessionAge) ==
    /\ session # Nil
    /\ sessionAge < CookieRefresh
    /\ CookieRefresh # 0

\* Line 525: the condition under which the cookie is due for a refresh.
RefreshDue(session, sessionAge) ==
    /\ session # Nil
    /\ sessionAge > CookieRefresh
    /\ CookieRefresh # 0

\* Lines 525-528.
AuthRefreshDue(a) ==
    IF RefreshDue(a.session, a.sessionAge)
    THEN [a EXCEPT !.saveSession = TRUE]
    ELSE a

\* AuthRefreshHook that marks the cookie for clearing on an error but keeps
\* the session.
AuthRefreshHook_KeepSessionOnError(a, outcome) ==
    LET b == Called(a, "RefreshSessionIfNeeded", outcome)
    IN  IF outcome = "err"
        THEN [b EXCEPT !.clearSession = TRUE]
        ELSE IF outcome = "ok"
        THEN [b EXCEPT !.saveSession = TRUE, !.revalidated = TRUE]
        ELSE b

\* Lines 530-537: the provider-refresh hook, whose outcome is "err" (an
\* error), "ok" (refreshed) or "none" (nothing to do).
AuthRefreshHook(a, outcome) ==
    LET b == Called(a, "RefreshSessionIfNeeded", outcome)
    IN  IF outcome = "err"
        THEN [b EXCEPT !.clearSession = TRUE, !.session = Nil]
        ELSE IF outcome = "ok"
        THEN [b EXCEPT !.saveSession = TRUE, !.revalidated = TRUE]
        ELSE b

\* AuthExpiry that trusts a session the provider has just revalidated.
AuthExpiry_SkipRevalidated(a) ==
    IF a.session # Nil /\ ~a.revalidated /\ IsExpired(Deref(a.session))
    THEN [Called(a, "IsExpired", "true")
            EXCEPT !.session = Nil, !.saveSession = FALSE,
                   !.clearSession = TRUE]
    ELSE IF a.session # Nil THEN Called(a, "IsExpired", "false")
    ELSE a

\* Lines 539-544: absolute expiry.
AuthExpiry(a) ==
    IF a.session # Nil /\ IsExpired(Deref(a.session))
    THEN [Called(a, "IsExpired", "true")
            EXCEPT !.session = Nil, !.saveSession = FALSE,
                   !.clearSession = TRUE]
    ELSE IF a.session # Nil THEN Called(a, "IsExpired", "false")
    ELSE a

\* AuthValidateState that runs whether or not the provider revalidated.
AuthValidateState_AlsoRevalidated(a, valid) ==
    IF a.saveSession /\ a.session # Nil
    THEN IF ~valid
         THEN [Called(a, "ValidateSessionState", "false")
                 EXCEPT !.saveSession = FALSE, !.session = Nil,
                        !.clearSession = TRUE]
         ELSE Called(a, "ValidateSessionState", "true")
    ELSE a

\* Lines 546-553: the local state-validity check, valid being its outcome.
AuthValidateState(a, valid) ==
    IF a.saveSession /\ ~a.revalidated /\ a.session # Nil
    THEN IF ~valid
         THEN [Called(a, "ValidateSessionState", "false")
                 EXCEPT !.saveSession = FALSE, !.session = Nil,
                        !.clearSession = TRUE]
         ELSE Called(a, "ValidateSessionState", "true")
    ELSE a

\* AuthPolicy that logs the denial but keeps the session.
AuthPolicy_KeepSession(a) ==
    IF a.session # Nil /\ Deref(a.session).Email # Empty
    THEN IF ~Validator(Deref(a.session).Email)
         THEN Called(a, "Validator", "false")
         ELSE Called(a, "Validator", "true")
    ELSE a

\* Lines 555-560: the policy gate.
AuthPolicy(a) ==
    IF a.session # Nil /\ Deref(a.session).Email # Empty
    THEN IF ~Validator(Deref(a.session).Email)
         THEN [Called(a, "Validator", "false")
                 EXCEPT !.session = Nil, !.saveSession = FALSE,
                        !.clearSession = TRUE]
         ELSE Called(a, "Validator", "true")
    ELSE a

\* AuthSave that logs a signing error and carries on.
AuthSave_IgnoreError(a, saveErr) ==
    IF a.saveSession /\ a.session # Nil
    THEN IF saveErr
         THEN Called(a, "SaveSession", "err")
         ELSE [Called(a, "SaveSession", "ok")
                 EXCEPT !.w = SaveSession(a.w, Deref(a.session))]
    ELSE a

\* Lines 562-568: re-sign and set the cookie; an error returns 500 at once.
AuthSave(a, saveErr) ==
    IF a.saveSession /\ a.session # Nil
    THEN IF saveErr
         THEN [Called(a, "SaveSession", "err") EXCEPT !.status = 500]
         ELSE [Called(a, "SaveSession", "ok")
                 EXCEPT !.w = SaveSession(a.w, Deref(a.session))]
    ELSE a

\* Lines 570-572.
AuthClear(a) ==
    IF a.clearSession
    THEN [Called(a, "ClearSessionCookie", "") EXCEPT
            !.w = ClearSessionCookie(a.w)]
    ELSE a

\* Lines 574-579: the Basic-Auth fallback.
AuthBasic(a, r) ==
    IF a.session = Nil
    THEN LET c == CheckBasicAuth(r)
         IN  [Called(a, "CheckBasicAuth",
                     IF c.err THEN "err"
                     ELSE IF c.session = Nil THEN "nil" ELSE "ok")
                EXCEPT !.session = c.session]
    ELSE a

\* Lines 586-592.
PassBasicAuthHeaders(h, s) ==
    IF PassBasicAuth
    THEN [h EXCEPT !["Authorization"] = BasicAuthValue(s.User, BasicAuthPassword),
                   !["X-Forwarded-User"] = s.User,
                   !["X-Forwarded-Email"] =
                        IF s.Email # Empty THEN s.Email ELSE @]
    ELSE h

\* Lines 593-598.
PassUserHeadersHeaders(h, s) ==
    IF PassUserHeaders
    THEN [h EXCEPT !["X-Forwarded-User"] = s.User,
                   !["X-Forwarded-Email"] =
                        IF s.Email # Empty THEN s.Email ELSE @]
    ELSE h

\* SetXAuthRequestHeaders under the toggle of the block above it.
SetXAuthRequestHeaders_WrongToggle(w, s) ==
    IF PassUserHeaders
    THEN [w EXCEPT !.XAuthRequestUser = s.User,
                   !.XAuthRequestEmail =
                        IF s.Email # Empty THEN s.Email ELSE @]
    ELSE w

\* Lines 599-604.
SetXAuthRequestHeaders(w, s) ==
    IF SetXAuthRequest
    THEN [w EXCEPT !.XAuthRequestUser = s.User,
                   !.XAuthRequestEmail =
                        IF s.Email # Empty THEN s.Email ELSE @]
    ELSE w

\* Lines 605-609.
SetLAPAuth(w, s) ==
    [w EXCEPT !.LAPAuth = IF s.Email = Empty THEN s.User ELSE s.Email]

\* Lines 581-611: Forbidden without a session, else the trust headers and
\* Accepted.
AuthFinish(a) ==
    IF a.session = Nil THEN [a EXCEPT !.status = 403]
    ELSE LET s == Deref(a.session)
         IN  [a EXCEPT
                !.h = PassUserHeadersHeaders(PassBasicAuthHeaders(a.h, s), s),
                !.w = SetLAPAuth(SetXAuthRequestHeaders(a.w, s), s),
                !.status = 202]

\* The outcomes of the hooks and of signing that one run of Authenticate
\* meets.
AuthEnvs ==
    [refresh : {"none", "ok", "err"}, valid : BOOLEAN, saveErr : BOOLEAN]

\* Authenticate(rw, req) under the outcomes e: the steps in order, the ones
\* after the save skipped when it returned 500.
Authenticate(r, w, e) ==
    LET a1 == {AuthRefreshDue(a) : a \in {AuthLoad(r, w)}}
        a2 == {AuthRefreshHook(a, e.refresh) : a \in a1}
        a3 == {AuthExpiry(a) : a \in a2}
        a4 == {AuthValidateState(a, e.valid) : a \in a3}
        a5 == {AuthPolicy(a) : a \in a4}
        a6 == {AuthSave(a, e.saveErr) : a \in a5}
        a7 == {IF a.status = 500 THEN a ELSE AuthClear(a) : a \in a6}
        a8 == {IF a.status = 500 THEN a ELSE AuthBasic(a, r) : a \in a7}
        a9 == {IF a.status = 500 THEN a ELSE AuthFinish(a) : a \in a8}
    IN  Only(a9)

-----------------------------------------------------------------------------
\* Pages and redirects.

\* The URL path "/".
RootPath == <<>>

\* ErrorPage(rw, code, title, message)
ErrorPage(w, code) == [w EXCEPT !.status = code, !.page = "error.html"]

\* SignInPage(rw, req, code, failed): the cookie is cleared, the status
\* written and sign_in.html rendered with the redirect field.  (The model
\* of req.URL.RequestURI() is the path: a request carries no query string.)
SignInPage(w, r, code, failed) ==
    LET redirect0   == IF r.Header["X-Auth-Request-Redirect"] # Empty
                       THEN r.Header["X-Auth-Request-Redirect"]
                       ELSE r.Path
        redirectURL == IF redirect0 = SignInPath THEN RootPath ELSE redirect0
    IN  [ClearSessionCookie(w) EXCEPT
            !.status = code, !.page = "sign_in.html", !.failed = failed,
            !.Redirect = redirectURL]

\* http.Redirect(rw, req, url, code)
Redirect(w, url, code) == [w EXCEPT !.status = code, !.Location = url]

\* GetRedirect without the test for a leading "//".
GetRedirect_NoDoubleSlashCheck(r) ==
    IF r.formErr THEN [redirect |-> Empty, err |-> TRUE]
    ELSE LET rd == r.Form.rd
         IN  [redirect |-> IF rd = Empty \/ ~HasPrefix(rd, <<"/">>)
                           THEN <<"/">> ELSE rd,
              err |-> FALSE]

\* GetRedirect(req): [redirect, err].
GetRedirect(r) ==
    IF r.formErr THEN [redirect |-> Empty, err |-> TRUE]
    ELSE LET rd == r.Form.rd
         IN  [redirect |-> IF rd = Empty \/ ~HasPrefix(rd, <<"/">>)
                              \/ HasPrefix(rd, <<"/", "/">>)
                           THEN <<"/">> ELSE rd,
              err |-> FALSE]

-----------------------------------------------------------------------------
\* The credential providers of sign-in.

\* ManualSignIn(rw, req): [user, ok].
ManualSignIn(r) ==
    IF r.Method # "POST" \/ HtpasswdFile = Nil
    THEN [user |-> Empty, ok |-> FALSE, validated |-> FALSE]
    ELSE IF r.Form.username = Empty
    THEN [user |-> Empty, ok |-> FALSE, validated |-> FALSE]
    ELSE IF Validate(Deref(HtpasswdFile), r.Form.username, r.Form.password)
    THEN [user |-> r.Form.username, ok |-> TRUE, validated |-> TRUE]
    ELSE [user |-> Empty, ok |-> FALSE, validated |-> TRUE]

\* What the directory server does in one sign-in: whether the connection
\* opens, the outcome of the bind ("ok", "reject", "err"), whether the group
\* lookup fails, and the groups it returns.
eng == <<"e", "n", "g">>

ENG == <<"E", "N", "G">>

Eng == <<"E", "n", "g">>

ops == <<"o", "p", "s">>

admin == <<"a", "d", "m", "i", "n">>

DirectoryGroups == {<<>>, <<eng, ops>>, <<ops>>, <<ENG>>}

\* No directory connection: none opened, none closed, no groups fetched.
NoConn == [opened |-> 0, closed |-> 0, fetched |-> Nil]

LdapEnv(open, bind, lookupErr, groups) ==
    [open |-> open, bind |-> bind, lookupErr |-> lookupErr, groups |-> groups]

LdapEnvs ==
    {LdapEnv(FALSE, "err", FALSE, <<>>), LdapEnv(TRUE, "err", FALSE, <<>>),
     LdapEnv(TRUE, "reject", FALSE, <<>>), LdapEnv(TRUE, "ok", TRUE, <<>>)}
    \cup {LdapEnv(TRUE, "ok", FALSE, g) : g \in DirectoryGroups}

\* LdapSignIn that closes the connection by hand on the paths that got past
\* the bind, and not on a bind error.
LdapSignIn_LeakOnBindError(r, e) ==
    LET user   == r.Form.username
        Closed == [opened |-> 1, closed |-> 1, fetched |-> Nil]
    IN  IF user = Empty
        THEN [user |-> Empty, groups |-> <<>>, ok |-> FALSE,
              calls |-> <<>>, conn |-> NoConn]
        ELSE IF ~e.open
        THEN [user |-> Empty, groups |-> <<>>, ok |-> FALSE,
              calls |-> <<<<"NewLDAPClient", "err">>>>, conn |-> NoConn]
        ELSE IF e.bind = "err"
        THEN [user |-> Empty, groups |-> <<>>, ok |-> FALSE,
              calls |-> <<<<"NewLDAPClient", "ok">>,
                          <<"ldapClient.Authenticate", "err">>>>,
              conn |-> [Closed EXCEPT !.closed = 0]]
        ELSE IF e.bind = "ok"
        THEN IF e.lookupErr
             THEN [user |-> user, groups |-> <<>>, ok |-> TRUE,
                   calls |-> <<<<"NewLDAPClient", "ok">>,
                               <<"ldapClient.Authenticate", "ok">>,
                               <<"ldapClient.GetGroupsOfUser", "err">>,
                               <<"ldapClient.Close", "">>>>,
                   conn |-> Closed]
             ELSE [user |-> user, groups |-> e.groups, ok |-> TRUE,
                   calls |-> <<<<"NewLDAPClient", "ok">>,
                               <<"ldapClient.Authenticate", "ok">>,
                               <<"ldapClient.GetGroupsOfUser", "ok">>,
                               <<"ldapClient.Close", "">>>>,
                   conn |-> [Closed EXCEPT !.fetched = Some(e.groups)]]
        ELSE [user |-> Empty, groups |-> <<>>, ok |-> FALSE,
              calls |-> <<<<"NewLDAPClient", "ok">>,
                          <<"ldapClient.Authenticate", "reject">>,
                          <<"ldapClient.Close", "">>>>,
              conn |-> Closed]

\* LdapSignIn(rw, req) against the directory behaviour e: [user, groups,
\* ok], the calls made, and the connections opened and closed (the deferred
\* Close runs on every return after the connection opened) with the groups
\* the lookup fetched.
LdapSignIn(r, e) ==
    LET user   == r.Form.username
        Closed == [opened |-> 1, closed |-> 1, fetched |-> Nil]
    IN  IF user = Empty
        THEN [user |-> Empty, groups |-> <<>>, ok |-> FALSE,
              calls |-> <<>>, conn |-> NoConn]
        ELSE IF ~e.open
        THEN [user |-> Empty, groups |-> <<>>, ok |-> FALSE,
              calls |-> <<<<"NewLDAPClient", "err">>>>, conn |-> NoConn]
        ELSE IF e.bind = "err"
        THEN [user |-> Empty, groups |-> <<>>, ok |-> FALSE,
              calls |-> <<<<"NewLDAPClient", "ok">>,
                          <<"ldapClient.Authenticate", "err">>,
                          <<"ldapClient.Close", "">>>>,
              conn |-> Closed]
        ELSE IF e.bind = "ok"
        THEN IF e.lookupErr
             THEN [user |-> user, groups |-> <<>>, ok |-> TRUE,
                   calls |-> <<<<"NewLDAPClient", "ok">>,
                               <<"ldapClient.Authenticate", "ok">>,
                               <<"ldapClient.GetGroupsOfUser", "err">>,
                               <<"ldapClient.Close", "">>>>,
                   conn |-> Closed]
             ELSE [user |-> user, groups |-> e.groups, ok |-> TRUE,
                   calls |-> <<<<"NewLDAPClient", "ok">>,
                               <<"ldapClient.Authenticate", "ok">>,
                               <<"ldapClient.GetGroupsOfUser", "ok">>,
                               <<"ldapClient.Close", "">>>>,
                   conn |-> [Closed EXCEPT !.fetched = Some(e.groups)]]
        ELSE [user |-> Empty, groups |-> <<>>, ok |-> FALSE,
              calls |-> <<<<"NewLDAPClient", "ok">>,
                          <<"ldapClient.Authenticate", "reject">>,
                          <<"ldapClient.Close", "">>>>,
              conn |-> Closed]

\* sliceContainsString(a, b): a and b hold a common string, ignoring case.
sliceContainsString(a, b) ==
    \E i \in 1..Len(a) : \E j \in 1..Len(b) : ToLower(a[i]) = ToLower(b[j])

-----------------------------------------------------------------------------
\* The handlers.  Each yields what serving the request did: the response w,
\* the request handed to the upstream router (Nil if none was), the locals
\* Authenticate returned with (Nil if it did not run), the log of
\* collaborator calls, and the directory connections opened and closed with
\* the groups fetched.

NoCalls == <<>>

Outcome(w, up, a, log, conn) ==
    [w |-> w, upstream |-> up, auth |-> a, calls |-> log, conn |-> conn]

\* The locals of a finished run of Authenticate.
Locals(a) ==
    [status |-> a.status, session |-> a.session,
     saveSession |-> a.saveSession, clearSession |-> a.clearSession,
     revalidated |-> a.revalidated]

\* RobotsTxt and PingPage
RobotsTxt(w) == [w EXCEPT !.status = 200, !.page = "robots"]

PingPage(w) == [w EXCEPT !.status = 200, !.page = "OK"]

\* p.serveMux.ServeHTTP(rw, req) with the request headers h: the upstream
\* router receives the request.
Forward(r, h) == Some([r EXCEPT !.Header = h])

\* Lines 449-456, 467-473, 482-486: save the session (an error is only
\* logged) and redirect.
SaveAndRedirect(w, user, redirect, saveErr) ==
    Redirect(IF saveErr THEN w ELSE SaveSession(w, NewSession(user)),
             redirect, 302)

\* GroupsAllowed that lets a user through when no group was fetched.
GroupsAllowed_NoGroupsPass(groups) ==
    IF Len(LdapGroups) > 0 /\ Len(groups) > 0
    THEN sliceContainsString(LdapGroups, groups)
    ELSE TRUE

\* Lines 466-486: whether a directory-authenticated user with these groups
\* is signed in.
GroupsAllowed(groups) ==
    IF Len(LdapGroups) > 0
    THEN sliceContainsString(LdapGroups, groups)
    ELSE TRUE

\* SignIn that asks the directory first and the credential file second.
SignIn_DirectoryFirst(r, w, saveErr, e) ==
    LET g == GetRedirect(r)
        m == ManualSignIn(r)
        l == LdapSignIn(r, e)
        llog == <<<<"LdapSignIn", IF l.ok THEN "ok" ELSE "fail">>>> \o l.calls
        mlog == llog \o <<<<"ManualSignIn", IF m.ok THEN "ok" ELSE "fail">>>>
        slog == <<<<"SaveSession", IF saveErr THEN "err" ELSE "ok">>>>
        clog == <<<<"ClearSessionCookie", "">>>>
    IN  IF g.err
        THEN Outcome(ErrorPage(w, 500), Nil, Nil, NoCalls, NoConn)
        ELSE IF l.ok /\ GroupsAllowed(l.groups)
        THEN Outcome(SaveAndRedirect(w, l.user, g.redirect, saveErr),
                     Nil, Nil, llog \o slog, l.conn)
        ELSE IF l.ok
        THEN Outcome(SignInPage(w, r, 401, TRUE), Nil, Nil, llog \o clog,
                     l.conn)
        ELSE IF m.ok
        THEN Outcome(SaveAndRedirect(w, m.user, g.redirect, saveErr),
                     Nil, Nil, mlog \o slog, l.conn)
        ELSE Outcome(SignInPage(w, r, 200, TRUE), Nil, Nil, mlog \o clog,
                     l.conn)

\* SignIn(rw, req) when signing fails or not (saveErr) and against the
\* directory behaviour e.
SignIn(r, w, saveErr, e) ==
    LET g == GetRedirect(r)
        m == ManualSignIn(r)
        l == LdapSignIn(r, e)
        mlog == <<<<"ManualSignIn", IF m.ok THEN "ok" ELSE "fail">>>>
        llog == mlog \o <<<<"LdapSignIn", IF l.ok THEN "ok" ELSE "fail">>>>
                     \o l.calls
        slog == <<<<"SaveSession", IF saveErr THEN "err" ELSE "ok">>>>
        clog == <<<<"ClearSessionCookie", "">>>>
    IN  IF g.err
        THEN Outcome(ErrorPage(w, 500), Nil, Nil, NoCalls, NoConn)
        ELSE IF m.ok
        THEN Outcome(SaveAndRedirect(w, m.user, g.redirect, saveErr),
                     Nil, Nil, mlog \o slog, NoConn)
        ELSE IF ~l.ok
        THEN Outcome(SignInPage(w, r, 200, TRUE), Nil, Nil, llog \o clog,
                     l.conn)
        ELSE IF GroupsAllowed(l.groups)
        THEN Outcome(SaveAndRedirect(w, l.user, g.redirect, saveErr),
                     Nil, Nil, llog \o slog, l.conn)
        ELSE Outcome(SignInPage(w, r, 401, TRUE), Nil, Nil, llog \o clog,
                     l.conn)

\* SignOut(rw, req)
SignOut(r, w) ==
    Outcome(Redirect(ClearSessionCookie(w), <<"/">>, 307), Nil, Nil,
            <<<<"ClearSessionCookie", "">>>>, NoConn)

\* AuthenticateOnly(rw, req)
AuthenticateOnly(r, w, e) ==
    Only({IF a.status = 202
          THEN Outcome([a.w EXCEPT !.status = 202], Nil, Some(Locals(a)),
                       a.calls, NoConn)
          ELSE Outcome([a.w EXCEPT !.status = 401,
                                   !.page = "unauthorized request"],
                       Nil, Some(Locals(a)), a.calls, NoConn) :
          a \in {Authenticate(r, w, e)}})

\* Proxy that tests for InternalError only and forwards everything else.
Proxy_ForwardUnlessError(r, w, e) ==
    Only({IF a.status = 500
          THEN Outcome(ErrorPage(a.w, 500), Nil, Some(Locals(a)), a.calls,
                       NoConn)
          ELSE Outcome(a.w, Forward(r, a.h), Some(Locals(a)), a.calls,
                       NoConn) :
          a \in {Authenticate(r, w, e)}})

\* Proxy(rw, req)
Proxy(r, w, e) ==
    Only({IF a.status = 500
          THEN Outcome(ErrorPage(a.w, 500), Nil, Some(Locals(a)), a.calls,
                       NoConn)
          ELSE IF a.status = 403
          THEN Outcome(SignInPage(a.w, r, 403, FALSE), Nil, Some(Locals(a)),
                       Append(a.calls, <<"ClearSessionCookie", "">>), NoConn)
          ELSE Outcome(a.w, Forward(r, a.h), Some(Locals(a)), a.calls,
                       NoConn) :
          a \in {Authenticate(r, w, e)}})

\* The switch with the whitelist case moved below the system paths.
Route_SystemPathsFirst(r) ==
    IF r.Path = RobotsPath THEN "RobotsTxt"
    ELSE IF r.Path = PingPath THEN "PingPage"
    ELSE IF r.Path = SignInPath THEN "SignIn"
    ELSE IF r.Path = SignOutPath THEN "SignOut"
    ELSE IF r.Path = AuthOnlyPath THEN "AuthenticateOnly"
    ELSE IF IsWhitelistedRequest(r) THEN "serveMux"
    ELSE "Proxy"

\* The case of the switch in ServeHTTP that serves r.
Route(r) ==
    IF r.Path = RobotsPath THEN "RobotsTxt"
    ELSE IF r.Path = PingPath THEN "PingPage"
    ELSE IF IsWhitelistedRequest(r) THEN "serveMux"
    ELSE IF r.Path = SignInPath THEN "SignIn"
    ELSE IF r.Path = SignOutPath THEN "SignOut"
    ELSE IF r.Path = AuthOnlyPath THEN "AuthenticateOnly"
    ELSE "Proxy"

-----------------------------------------------------------------------------
\* The requests and configurations the model serves.

al == <<"a", "l">>

bo == <<"b", "o">>

PasswordOk == <<"o", "k">>

PasswordNo == <<"n", "o">>

\* The credential file: al with password ok.
Htpasswd == {<<al, PasswordOk>>}

EmailValid == <<"o", "@", "y">>

EmailInvalid == <<"x", "@", "y">>

\* Peer addresses and address headers: inside 10.0.0.0/8, outside it, and
\* text that is no address.
PeerInside == <<"1", "0", ".", "0", ".", "0", ".", "1", ":", "5", "0", "0", "0">>

PeerOutside == <<"1", "9", "2", ".", "1", "6", "8", ".", "0", ".", "9", ":", "5", "0", "0", "0">>

AddrInside == <<"1", "0", ".", "2", ".", "3", ".", "4">>

AddrOutside == <<"9", ".", "9", ".", "9", ".", "9">>

AddrBogus == <<"x">>

SkipBlock == [IP |-> <<10, 0, 0, 0>>, ones |-> 8]

HealthPattern == [kind |-> "suffix", segs |-> <<"health">>]

HeaderNames ==
    {"X-Real-IP", "X-Forwarded-For", "Authorization", "X-Forwarded-User",
     "X-Forwarded-Email", "X-Auth-Request-Redirect"}

NoHeaders == [n \in HeaderNames |-> Empty]

NoForm == [username |-> Empty, password |-> Empty, rd |-> Empty]

\* A session cookie signed with `mac` at time t for user and email.
Cookie(user, email, t, mac, wellFormed) ==
    Some([name |-> CookieName, payload |-> [User |-> user, Email |-> email],
          timestamp |-> t, mac |-> mac, wellFormed |-> wellFormed])

\* The cookies a request may carry: none, a verified one of any age and
\* email, one signed under another secret, a malformed one.
Cookies ==
    {Nil, Cookie(al, Empty, Now, "other", TRUE),
     Cookie(al, Empty, Now, CookieSeed, FALSE)}
    \cup {Cookie(al, e, t, CookieSeed, TRUE) :
            e \in {Empty, EmailValid, EmailInvalid}, t \in 0..Now}

\* Authorization headers: none, Basic al:ok, Basic al:no, another scheme,
\* Basic with text that is not base64, Basic with no colon in the pair.
Authorizations ==
    {Empty,
     BasicAuthValue(al, PasswordOk),
     BasicAuthValue(al, PasswordNo),
     <<"B", "e", "a", "r", "e", "r", " ", "x">>,
     BasicScheme \o <<" ", "!", "!", "!", "!">>,
     BasicScheme \o <<" ">> \o EncodeToString(al \o PasswordOk)}

\* The three address fields of a request: peer, real-IP header, proxy-IP
\* header.
Addresses ==
    {<<PeerOutside, Empty, Empty>>,
     <<PeerInside, Empty, Empty>>,
     <<PeerOutside, AddrInside, Empty>>,
     <<PeerOutside, Empty, AddrInside>>,
     <<PeerOutside, AddrInside, AddrOutside>>,
     <<PeerOutside, AddrOutside, AddrInside>>,
     <<PeerInside, AddrBogus, Empty>>,
     <<PeerInside, AddrOutside, Empty>>}

Methods == {"GET", "POST", "OPTIONS"}

Request(method, path, addr, cookie, authorization, xfu, form, formErr) ==
    [Method     |-> method,
     Path       |-> path,
     RemoteAddr |-> addr[1],
     Header     |-> [NoHeaders EXCEPT
                        !["X-Real-IP"] = addr[2],
                        !["X-Forwarded-For"] = addr[3],
                        !["Authorization"] = authorization,
                        !["X-Forwarded-User"] = xfu],
     Cookie     |-> cookie,
     Form       |-> form,
     formErr    |-> formErr]

PrivatePath == <<"private", "page">>

HealthPath == <<"svc", "health">>

ClientForwardedUser == <<"e", "v">>

ClientForwardedEmail == <<"e", "@", "v">>

PlainAddress == <<PeerOutside, Empty, Empty>>

\* Requests that differ in what the dispatcher and the whitelist read:
\* method, path and the three address fields, with or without credentials.
DispatchRequests ==
    {Request(m, p, addr, c, z, Empty, NoForm, FALSE) :
        m \in Methods,
        p \in {SignInPath, SignOutPath, AuthOnlyPath, PrivatePath, HealthPath},
        addr \in Addresses,
        c \in {Nil, Cookie(al, Empty, Now, CookieSeed, TRUE)},
        z \in {Empty}}

\* Requests that differ in what Authenticate reads: the cookie, the
\* Authorization header, and a client-supplied X-Forwarded-User.
CredentialRequests ==
    {Request("GET", p, PlainAddress, c, z, x, NoForm, FALSE) :
        p \in {AuthOnlyPath, PrivatePath},
        c \in Cookies, z \in Authorizations,
        x \in {Empty, ClientForwardedUser}}

\* The redirect parameters: none, a path, a scheme-relative URL, a relative
\* reference.
Redirects == {Empty, <<"/", "a">>, <<"/", "/", "a">>, <<"a">>}

\* Sign-in forms: every username and password with one redirect, and every
\* redirect with one username and password.
Forms ==
    {[username |-> u, password |-> pw, rd |-> <<"/", "a">>] :
        u \in {Empty, al, bo}, pw \in {PasswordOk, PasswordNo}}
    \cup {[username |-> al, password |-> PasswordOk, rd |-> rd] :
            rd \in Redirects}

\* Requests that differ in what SignIn reads: method, form and whether the
\* form parses.
FormRequests ==
    {Request(m, SignInPath, PlainAddress, Nil, Empty, Empty, f, ferr) :
        m \in {"GET", "POST"}, f \in Forms, ferr \in BOOLEAN}
    \cup {Request("POST", SignInPath, <<PeerInside, Empty, Empty>>, Nil,
                  Empty, Empty, f, FALSE) : f \in Forms}

\* Requests to a private page that come with X-Forwarded-User and
\* X-Forwarded-Email headers of the client's own.
ForwardedHeaderRequests ==
    {[r EXCEPT !.Header["X-Forwarded-Email"] = ClientForwardedEmail] :
        r \in {c \in CredentialRequests :
                    /\ c.Path = PrivatePath
                    /\ c.Header["X-Forwarded-User"] = ClientForwardedUser}}

Requests == DispatchRequests \cup CredentialRequests \cup FormRequests
    \cup ForwardedHeaderRequests
    \cup {Request(m, p, PlainAddress, Nil, Empty, Empty, NoForm, FALSE) :
            m \in Methods, p \in {RobotsPath, PingPath}}

\* The requests by path, as the cases of the switch in ServeHTTP tell them
\* apart.
RequestsAt(paths) == {r \in Requests : r.Path \in paths}

RobotsRequests == RequestsAt({RobotsPath})

PingRequests == RequestsAt({PingPath})

SignInRequests == RequestsAt({SignInPath})

SignOutRequests == RequestsAt({SignOutPath})

AuthOnlyRequests == RequestsAt({AuthOnlyPath})

OtherRequests ==
    Requests \ RequestsAt({RobotsPath, PingPath, SignInPath, SignOutPath,
                           AuthOnlyPath})

\* The option groups of a configuration: header injection, whitelisting,
\* and the directory group allow-list.
HeaderOptions == [PassBasicAuth : BOOLEAN, PassUserHeaders : BOOLEAN,
                  SetXAuthRequest : BOOLEAN]

NoHeaderOptions == [PassBasicAuth |-> FALSE, PassUserHeaders |-> FALSE,
                    SetXAuthRequest |-> FALSE]

WhitelistOptions == [skipAuthPreflight : BOOLEAN,
                     compiledPathRegex : {<<>>, <<HealthPattern>>},
                     skipAuthIPs : {<<>>, <<SkipBlock>>}]

NoWhitelistOptions == [skipAuthPreflight |-> FALSE, compiledPathRegex |-> <<>>,
                       skipAuthIPs |-> <<>>]

GroupOptions == {<<>>, <<admin>>, <<Eng, admin>>}

\* The configurations served: one option group varies at a time, the other
\* two at their defaults; cookie refresh and the credential file vary with
\* each.
Deployments ==
    {<<h, NoWhitelistOptions, <<>>>> : h \in HeaderOptions}
    \cup {<<NoHeaderOptions, wl, <<>>>> : wl \in WhitelistOptions}
    \cup {<<NoHeaderOptions, NoWhitelistOptions, g>> : g \in GroupOptions}

-----------------------------------------------------------------------------
\* The state machine: a request arrives and ServeHTTP serves it to the end;
\* then the next request arrives.

NoRequest == Request("", RootPath, PlainAddress, Nil, Empty, Empty, NoForm, FALSE)

Init ==
    /\ CookieRefresh \in {0, RefreshAfter}
    /\ HtpasswdFile \in {Nil, Some(Htpasswd)}
    /\ \E d \in Deployments :
        /\ PassBasicAuth = d[1].PassBasicAuth
        /\ PassUserHeaders = d[1].PassUserHeaders
        /\ SetXAuthRequest = d[1].SetXAuthRequest
        /\ skipAuthPreflight = d[2].skipAuthPreflight
        /\ compiledPathRegex = d[2].compiledPathRegex
        /\ skipAuthIPs = d[2].skipAuthIPs
        /\ LdapGroups = d[3]
    /\ pc = "idle"
    /\ req = NoRequest
    /\ rw = FreshResponse
    /\ upstream = Nil
    /\ authResult = Nil
    /\ calls = NoCalls
    /\ ldapConn = NoConn

\* ServeHTTP has served r with outcome o.
Served(r, o) ==
    /\ pc' = "done"
    /\ req' = r
    /\ rw' = o.w
    /\ upstream' = o.upstream
    /\ authResult' = o.auth
    /\ calls' = o.calls
    /\ ldapConn' = o.conn
    /\ UNCHANGED cfgvars

ServeRobotsTxt ==
    /\ pc = "idle"
    /\ \E r \in RobotsRequests :
        /\ Route(r) = "RobotsTxt"
        /\ Served(r, Outcome(RobotsTxt(FreshResponse), Nil, Nil, NoCalls, NoConn))

ServePingPage ==
    /\ pc = "idle"
    /\ \E r \in PingRequests :
        /\ Route(r) = "PingPage"
        /\ Served(r, Outcome(PingPage(FreshResponse), Nil, Nil, NoCalls, NoConn))

ServeWhitelisted ==
    /\ pc = "idle"
    /\ \E r \in Requests :
        /\ Route(r) = "serveMux"
        /\ Served(r, Outcome(FreshResponse, Forward(r, r.Header), Nil,
                             NoCalls, NoConn))

ServeSignIn ==
    /\ pc = "idle"
    /\ \E r \in SignInRequests :
        /\ Route(r) = "SignIn"
        /\ \E saveErr \in BOOLEAN, e \in LdapEnvs :
            Served(r, SignIn(r, FreshResponse, saveErr, e))

ServeSignOut ==
    /\ pc = "idle"
    /\ \E r \in SignOutRequests :
        /\ Route(r) = "SignOut"
        /\ Served(r, SignOut(r, FreshResponse))

ServeAuthenticateOnly ==
    /\ pc = "idle"
    /\ \E r \in AuthOnlyRequests :
        /\ Route(r) = "AuthenticateOnly"
        /\ \E e \in AuthEnvs : Served(r, AuthenticateOnly(r, FreshResponse, e))

ServeProxy ==
    /\ pc = "idle"
    /\ \E r \in OtherRequests :
        /\ Route(r) = "Proxy"
        /\ \E e \in AuthEnvs : Served(r, Proxy(r, FreshResponse, e))

\* The handler has returned; the per-request state is discarded.
Finish ==
    /\ pc = "done"
    /\ pc' = "idle"
    /\ req' = NoRequest
    /\ rw' = FreshResponse
    /\ upstream' = Nil
    /\ authResult' = Nil
    /\ calls' = NoCalls
    /\ ldapConn' = NoConn
    /\ UNCHANGED cfgvars

Next ==
    \/ ServeRobotsTxt
    \/ ServePingPage
    \/ ServeWhitelisted
    \/ ServeSignIn
    \/ ServeSignOut
    \/ ServeAuthenticateOnly
    \/ ServeProxy
    \/ Finish

Spec == Init /\ [][Next]_vars

-----------------------------------------------------------------------------
\* Properties.  What a property says of a served request it reads off the
\* state ServeHTTP left: the request, the response, the request the upstream
\* router received, the locals Authenticate returned with, the call log.

Done == pc = "done"

SystemPaths == {RobotsPath, PingPath, SignInPath, SignOutPath, AuthOnlyPath}

\* Authenticate ran for the request / its locals at return.
AuthRan == Done /\ authResult # Nil

Auth == Deref(authResult)

WasCalled(name) == \E i \in 1..Len(calls) : calls[i][1] = name

CallOutcome(name, outcome) == \E i \in 1..Len(calls) : calls[i] = <<name, outcome>>

CallCount(name) == Cardinality({i \in 1..Len(calls) : calls[i][1] = name})

\* The Set-Cookie headers of the response that issue a session / clear it.
SessionCookiesSet == {i \in 1..Len(rw.cookies) : IsSessionCookie(rw.cookies[i])}

CookieCleared == \E i \in 1..Len(rw.cookies) : IsClearCookie(rw.cookies[i])

\* The request carries a cookie that verifies; its payload and age.
HasVerifiedCookie ==
    /\ req.Cookie # Nil
    /\ Deref(req.Cookie).wellFormed
    /\ Deref(req.Cookie).mac = CookieSeed

CookiePayload == Deref(req.Cookie).payload

CookieAge == Now - Deref(req.Cookie).timestamp

\* The credential pairs of the credential file that the Authorization
\* header of the request carries as Basic credentials.
BasicCredentials ==
    IF HtpasswdFile = Nil THEN {}
    ELSE {c \in Deref(HtpasswdFile) :
            req.Header["Authorization"] = BasicAuthValue(c[1], c[2])}

\* The session Authenticate ended with is the one of the verified cookie,
\* unexpired and accepted by the validator.
SessionFromCookie ==
    /\ HasVerifiedCookie
    /\ CookieAge <= CookieExpire
    /\ CookiePayload.Email = Empty \/ CookiePayload.Email \in ValidEmails
    /\ ~WasCalled("CheckBasicAuth")
    /\ Deref(Auth.session).User = CookiePayload.User
    /\ Deref(Auth.session).Email = CookiePayload.Email

\* The session Authenticate ended with is the one of Basic credentials the
\* credential file holds.
SessionFromBasicAuth ==
    /\ WasCalled("CheckBasicAuth")
    /\ \E c \in BasicCredentials : Deref(Auth.session) = NewSession(c[1])

\* C1: a request to none of the system paths that is not whitelisted reaches
\* the upstream router only if Authenticate returned Accepted with a session
\* from a verified, unexpired, validator-accepted cookie or from Basic
\* credentials of the credential file; Forbidden renders the sign-in page
\* with 403, InternalError the error page with 500, neither reaches the
\* upstream.
C1_UpstreamOnlyIfAccepted ==
    (Done /\ req.Path \notin SystemPaths /\ ~IsWhitelistedRequest(req)) =>
        /\ authResult # Nil
        /\ Auth.status \in {202, 403, 500}
        /\ upstream # Nil => Auth.status = 202
        /\ Auth.status = 202 =>
            /\ Auth.session # Nil
            /\ SessionFromCookie \/ SessionFromBasicAuth
        /\ Auth.status = 403 =>
            /\ rw.status = 403
            /\ rw.page = "sign_in.html"
            /\ upstream = Nil
        /\ Auth.status = 500 =>
            /\ rw.status = 500
            /\ rw.page = "error.html"
            /\ upstream = Nil

\* C1 witness: with a whitelist block configured, a request from outside it
\* with a verified cookie is accepted and forwarded.
C1_Witness ==
    /\ Done
    /\ req.Path = PrivatePath
    /\ Len(skipAuthIPs) > 0
    /\ ~IsWhitelistedRequest(req)
    /\ authResult # Nil
    /\ Auth.status = 202
    /\ SessionFromCookie
    /\ upstream # Nil

\* The cookie of the request carries an email the validator rejects.
CookieEmailRejected ==
    /\ req.Cookie # Nil
    /\ CookiePayload.Email # Empty
    /\ CookiePayload.Email \notin ValidEmails

\* C2 as claimed: whenever Authenticate runs on a request whose cookie
\* session has a non-empty email the validator rejects, it returns Forbidden,
\* whatever else the request carries.
C2_Claimed_AlwaysForbidden ==
    (AuthRan /\ CookieEmailRejected) => Auth.status = 403

\* C2 as amended: on such a request Authenticate never accepts the cookie
\* session and never re-signs the cookie; it returns Forbidden unless the
\* Authorization header carries Basic credentials of the credential file,
\* and then it returns Accepted for that Basic-Auth user.
C2_PolicyGate ==
    (AuthRan /\ CookieEmailRejected) =>
        /\ Auth.status \in {202, 403}
        /\ Auth.status = 202 <=> BasicCredentials # {}
        /\ Auth.status = 202 => SessionFromBasicAuth
        /\ SessionCookiesSet = {}
        /\ ~WasCalled("SaveSession")
        /\ HasVerifiedCookie => CookieCleared

\* C2 witness: a verified, unexpired cookie with a rejected email and no
\* Authorization header is denied by the validator.
C2_Witness ==
    /\ AuthRan
    /\ CookieEmailRejected
    /\ HasVerifiedCookie
    /\ CookieAge <= CookieExpire
    /\ req.Header["Authorization"] = Empty
    /\ CallOutcome("Validator", "false")
    /\ Auth.status = 403

\* The cookie session Authenticate loaded is expired.
CookieSessionExpired == HasVerifiedCookie /\ CookieAge > CookieExpire

C4_Claimed_NeverResigned ==
    (AuthRan /\ CookieRefresh = 0) => ~WasCalled("SaveSession")

\* C4 as amended: with CookieRefresh 0 the age of the session never makes
\* Authenticate re-sign the cookie: SaveSession is called only when the
\* provider-refresh hook reported a refresh.
C4_NoResignWhenDisabled ==
    (AuthRan /\ CookieRefresh = 0) =>
        /\ WasCalled("SaveSession") => CallOutcome("RefreshSessionIfNeeded", "ok")
        /\ SessionCookiesSet # {} => CallOutcome("RefreshSessionIfNeeded", "ok")

\* C4 witness: refresh disabled, a verified session older than any refresh
\* interval, the hook reporting nothing: accepted without a new cookie.
C4_Witness ==
    /\ AuthRan
    /\ CookieRefresh = 0
    /\ HasVerifiedCookie
    /\ CookieAge > RefreshAfter
    /\ CookieAge <= CookieExpire
    /\ CallOutcome("RefreshSessionIfNeeded", "none")
    /\ Auth.status = 202
    /\ rw.cookies = <<>>

\* Refresh is enabled and the verified cookie session is older than the
\* refresh interval.
RefreshIsDue ==
    /\ CookieRefresh # 0
    /\ HasVerifiedCookie
    /\ CookieAge > CookieRefresh

\* C5 as claimed: when a refresh is due Authenticate sets the re-signed
\* cookie exactly once, unless the provider-refresh hook errors, and then it
\* sets none and clears the cookie.
C5_Claimed_ExactlyOnce ==
    (AuthRan /\ RefreshIsDue) =>
        IF CallOutcome("RefreshSessionIfNeeded", "err")
        THEN SessionCookiesSet = {} /\ CookieCleared
        ELSE Cardinality(SessionCookiesSet) = 1

\* The session passed every check between the hook and the save.
SessionSurvives ==
    /\ ~CallOutcome("RefreshSessionIfNeeded", "err")
    /\ CookieAge <= CookieExpire
    /\ ~CallOutcome("ValidateSessionState", "false")
    /\ CookiePayload.Email = Empty \/ CookiePayload.Email \in ValidEmails

\* C5 as amended: when a refresh is due Authenticate calls SaveSession
\* exactly once if the session survives the hook, the expiry check, the
\* local validity check and the policy gate, and the cookie is then set
\* once unless signing fails (InternalError, no cookie); if the hook errors
\* or a check drops the session, no cookie is re-signed and the cookie is
\* cleared.
C5_RefreshCadence ==
    (AuthRan /\ RefreshIsDue) =>
        /\ CallCount("SaveSession") <= 1
        /\ Cardinality(SessionCookiesSet) <= 1
        /\ SessionSurvives <=> CallCount("SaveSession") = 1
        /\ SessionCookiesSet # {} <=> CallOutcome("SaveSession", "ok")
        /\ CallOutcome("SaveSession", "err") => Auth.status = 500
        /\ ~SessionSurvives => SessionCookiesSet = {} /\ CookieCleared

\* C5 witness: a refresh is due, the hook reports nothing, the session is
\* valid: one cookie is set and the request accepted.
C5_Witness ==
    /\ AuthRan
    /\ RefreshIsDue
    /\ CallOutcome("RefreshSessionIfNeeded", "none")
    /\ CallOutcome("ValidateSessionState", "true")
    /\ Cardinality(SessionCookiesSet) = 1
    /\ ~CookieCleared
    /\ Auth.status = 202

\* C6: a whitelisted request to a path other than /robots.txt and /ping is
\* handed to the upstream router as it came, Authenticate is not invoked,
\* no collaborator is called and no cookie is set or cleared; also with no
\* cookie and no Authorization header.
C6_WhitelistBypass ==
    (Done /\ IsWhitelistedRequest(req) /\ req.Path \notin {RobotsPath, PingPath}) =>
        /\ upstream = Some(req)
        /\ authResult = Nil
        /\ calls = NoCalls
        /\ rw.cookies = <<>>
        /\ rw.status = 0

\* C6 witness: a request to a path matching the configured pattern, with
\* no cookie and no Authorization header, reached the upstream.
C6_Witness ==
    /\ Done
    /\ req.Path = HealthPath
    /\ IsWhitelistedPath(req.Path)
    /\ req.Cookie = Nil
    /\ req.Header["Authorization"] = Empty
    /\ upstream = Some(req)
    /\ authResult = Nil

\* The address the claimed priority order resolves: the real-IP header when
\* present, else the proxy-IP header when present, else the peer address.
PreferredAddr ==
    IF req.Header[RealIPHeader] # Empty THEN req.Header[RealIPHeader]
    ELSE IF req.Header[ProxyIPHeader] # Empty THEN req.Header[ProxyIPHeader]
    ELSE SplitN2(req.RemoteAddr, ":")[1]

\* The request was handed upstream by the whitelist, Authenticate unasked.
Bypassed == upstream # Nil /\ authResult = Nil

\* C7 as claimed: with only the IP whitelist configured, a request is
\* bypassed exactly when the address resolved in the order real-IP header,
\* proxy-IP header, peer address lies in a configured block.
C7_Claimed_RealIPFirst ==
    (/\ Done
     /\ req.Path \notin {RobotsPath, PingPath}
     /\ Len(skipAuthIPs) > 0
     /\ ~skipAuthPreflight
     /\ compiledPathRegex = <<>>) =>
        (Bypassed <=> IsWhitelistedIP(ParseIP(PreferredAddr)))

\* C8 as claimed: every request to {prefix}/auth runs Authenticate, answers
\* 202 exactly when it returned Accepted and 401 otherwise, and is never
\* forwarded to the upstream router, whatever the whitelist configuration.
C8_Claimed_AuthOnly ==
    (Done /\ req.Path = AuthOnlyPath) =>
        /\ authResult # Nil
        /\ rw.status = IF Auth.status = 202 THEN 202 ELSE 401
        /\ upstream = Nil

\* SignIn went on to the directory and the directory authenticated the user.
DirectoryAuthenticated == Done /\ CallOutcome("LdapSignIn", "ok")

\* The groups the directory lookup fetched (none when the lookup failed).
FetchedGroups ==
    IF ldapConn.fetched = Nil THEN <<>> ELSE Deref(ldapConn.fetched)

\* A fetched group equals an allowed group, ignoring case.
GroupsIntersect ==
    \E i \in 1..Len(LdapGroups) : \E j \in 1..Len(FetchedGroups) :
        ToLower(LdapGroups[i]) = ToLower(FetchedGroups[j])

\* C9: with a non-empty group allow-list a directory-authenticated user is
\* redirected with 302 (and gets a session cookie) only if a fetched group
\* equals an allowed group ignoring case; otherwise, also when the lookup
\* failed and fetched nothing, the response is 401 with the sign-in page
\* and no session cookie.  A user the local credential file authenticated
\* is redirected whatever the allow-list, the directory unasked.
C9_GroupPolicy ==
    /\ (DirectoryAuthenticated /\ Len(LdapGroups) > 0) =>
        /\ (rw.status = 302 \/ SessionCookiesSet # {}) => GroupsIntersect
        /\ GroupsIntersect => rw.status = 302
        /\ ~GroupsIntersect =>
            /\ rw.status = 401
            /\ rw.page = "sign_in.html"
            /\ SessionCookiesSet = {}
            /\ ~WasCalled("SaveSession")
    /\ (Done /\ CallOutcome("ManualSignIn", "ok")) =>
        /\ rw.status = 302
        /\ ldapConn = NoConn
        /\ ~WasCalled("LdapSignIn")

\* C9 witness: allow-list [admin], fetched groups [eng, ops]: sign-in fails
\* with 401 and no session cookie.
C9_Witness ==
    /\ DirectoryAuthenticated
    /\ LdapGroups = <<admin>>
    /\ FetchedGroups = <<eng, ops>>
    /\ rw.status = 401
    /\ SessionCookiesSet = {}

\* The sign-in handler got a POST with a non-empty username.
SignInPost ==
    /\ Done
    /\ req.Path = SignInPath
    /\ ~IsWhitelistedRequest(req)
    /\ req.Method = "POST"
    /\ req.Form.username # Empty

\* The local credential file holds the credentials of the form.
LocalFileValidates ==
    /\ HtpasswdFile # Nil
    /\ <<req.Form.username, req.Form.password>> \in Deref(HtpasswdFile)

\* The redirect target: the rd parameter when it is a path on this site.
RedirectTarget ==
    IF /\ Len(req.Form.rd) > 0
       /\ req.Form.rd[1] = "/"
       /\ ~(Len(req.Form.rd) > 1 /\ req.Form.rd[2] = "/")
    THEN req.Form.rd
    ELSE <<"/">>

\* The response sets exactly the signed session cookie of the form's user.
SessionCookieOfUser ==
    /\ Cardinality(SessionCookiesSet) = 1
    /\ \A i \in SessionCookiesSet :
        /\ rw.cookies[i].Name = CookieName
        /\ Deref(rw.cookies[i].Value).payload.User = req.Form.username
        /\ Deref(rw.cookies[i].Value).mac = CookieSeed

\* The directory sign-in ran only after the local-file attempt failed.
DirectoryAfterLocalFile ==
    \A i \in 1..Len(calls) :
        calls[i][1] \in {"LdapSignIn", "NewLDAPClient"} =>
            \E j \in 1..(i - 1) : calls[j] = <<"ManualSignIn", "fail">>

\* C10 as claimed: on a sign-in POST with a non-empty username that the
\* local credential file validates, the response sets the session cookie of
\* that user and redirects with 302 to the redirect target, and the
\* directory is not contacted; the directory sign-in runs only after the
\* local-file attempt failed.
C10_Claimed_CookieAndRedirect ==
    SignInPost =>
        /\ LocalFileValidates =>
            /\ SessionCookieOfUser
            /\ rw.status = 302
            /\ rw.Location = RedirectTarget
            /\ ldapConn = NoConn
            /\ ~WasCalled("LdapSignIn")
        /\ DirectoryAfterLocalFile

\* C10 as amended: when the form fails to parse the response is the 500
\* error page and no provider is tried; otherwise the local credential file
\* is tried first, and if it validates the credentials the response is a 302
\* redirect to the redirect target that sets the session cookie of that
\* user unless signing fails (then it sets none), and the directory is not
\* contacted; the directory sign-in runs only after the local-file attempt
\* failed.
C10_SignInPrecedence ==
    SignInPost =>
        /\ req.formErr =>
            /\ rw.status = 500
            /\ rw.page = "error.html"
            /\ calls = NoCalls
            /\ rw.cookies = <<>>
        /\ (~req.formErr /\ LocalFileValidates) =>
            /\ calls[1] = <<"ManualSignIn", "ok">>
            /\ rw.status = 302
            /\ rw.Location = RedirectTarget
            /\ IF CallOutcome("SaveSession", "ok")
               THEN SessionCookieOfUser
               ELSE rw.cookies = <<>>
            /\ ldapConn = NoConn
            /\ ~WasCalled("LdapSignIn")
            /\ ~WasCalled("NewLDAPClient")
        /\ (~req.formErr /\ ~LocalFileValidates) =>
            calls[1] = <<"ManualSignIn", "fail">>
        /\ DirectoryAfterLocalFile

\* C10 witness: the local file validates the user of a sign-in POST with a
\* redirect parameter: cookie set, 302 to the parameter, directory unasked.
C10_Witness ==
    /\ SignInPost
    /\ LocalFileValidates
    /\ req.Form.rd = <<"/", "a">>
    /\ SessionCookieOfUser
    /\ rw.status = 302
    /\ rw.Location = <<"/", "a">>
    /\ ldapConn = NoConn

\* The calls LdapSignIn makes on the directory client.
DirectoryCalls ==
    {"NewLDAPClient", "ldapClient.Authenticate", "ldapClient.GetGroupsOfUser",
     "ldapClient.Close"}

\* C11: when LdapSignIn has returned, every directory connection it opened
\* is closed, the Close being the last call on the client, after a bind
\* error, a rejected bind, a failed group lookup and a success alike; an
\* open or bind error makes LdapSignIn report 'not authenticated' and the
\* handler answer with the sign-in page, never an error page; no call on
\* the client is made twice.
C11_ConnectionsClosed ==
    (Done /\ WasCalled("LdapSignIn")) =>
        /\ ldapConn.opened = ldapConn.closed
        /\ ldapConn.opened = IF CallOutcome("NewLDAPClient", "ok") THEN 1 ELSE 0
        /\ CallOutcome("NewLDAPClient", "ok") =>
            /\ calls[Len(calls) - 1] = <<"ldapClient.Close", "">>
            /\ \A i \in 1..Len(calls) :
                calls[i][1] \in DirectoryCalls => i <= Len(calls) - 1
        /\ \A n \in DirectoryCalls : CallCount(n) <= 1
        /\ (\/ CallOutcome("NewLDAPClient", "err")
            \/ CallOutcome("ldapClient.Authenticate", "err")) =>
            /\ CallOutcome("LdapSignIn", "fail")
            /\ rw.status = 200
            /\ rw.page = "sign_in.html"
            /\ rw.failed
            /\ SessionCookiesSet = {}
        /\ rw.status \in {200, 302, 401}

\* C11 witness: the bind ended in an error on an opened connection, which
\* is closed when the handler has answered.
C11_Witness ==
    /\ Done
    /\ CallOutcome("NewLDAPClient", "ok")
    /\ CallOutcome("ldapClient.Authenticate", "err")
    /\ ldapConn.opened = 1
    /\ ldapConn.closed = 1
    /\ rw.status = 200

\* The response carries none of the headers Authenticate sets on Accepted.
NoResponseTrustHeaders ==
    /\ rw.LAPAuth = NoHeader
    /\ rw.XAuthRequestUser = NoHeader
    /\ rw.XAuthRequestEmail = NoHeader

\* C12: Authenticate returns InternalError exactly when SaveSession fails,
\* and then at once: SaveSession is its last call, the cookie is neither set
\* nor cleared, the Basic-Auth fallback is not tried and no trust header is
\* set; Proxy answers with the 500 error page and the upstream is not
\* reached.  No other failure on the authentication path (cookie
\* verification, provider hook, policy, malformed Basic-Auth) yields a 5xx.
C12_InternalErrorOnlyOnSave ==
    AuthRan =>
        /\ Auth.status = 500 <=> CallOutcome("SaveSession", "err")
        /\ rw.status >= 500 => CallOutcome("SaveSession", "err")
        /\ Auth.status = 500 =>
            /\ calls[Len(calls)] = <<"SaveSession", "err">>
            /\ ~WasCalled("ClearSessionCookie")
            /\ ~WasCalled("CheckBasicAuth")
            /\ rw.cookies = <<>>
            /\ NoResponseTrustHeaders
            /\ upstream = Nil
            /\ Auth.session # Nil /\ Auth.saveSession
            /\ req.Path # AuthOnlyPath =>
                rw.status = 500 /\ rw.page = "error.html"
        /\ (/\ \/ CallOutcome("LoadCookiedSession", "err")
               \/ CallOutcome("RefreshSessionIfNeeded", "err")
               \/ CallOutcome("Validator", "false")
               \/ CallOutcome("CheckBasicAuth", "err")) =>
            /\ Auth.status # 500
            /\ rw.status < 500

\* C12 witness: on the proxied path a pending save of a present session
\* fails: the 500 error page, the upstream not reached.
C12_Witness ==
    /\ AuthRan
    /\ req.Path = PrivatePath
    /\ CallOutcome("SaveSession", "err")
    /\ Auth.status = 500
    /\ rw.status = 500
    /\ rw.page = "error.html"
    /\ upstream = Nil

\* The request carries a session cookie that fails verification: signed
\* under another secret, or malformed.
HasFailingCookie ==
    /\ req.Cookie # Nil
    /\ ~(Deref(req.Cookie).wellFormed /\ Deref(req.Cookie).mac = CookieSeed)

\* The same request without the session cookie.
WithoutCookie == [req EXCEPT !.Cookie = Nil]

\* What the handler that ran Authenticate does with request r under the
\* outcomes e of the hooks and of signing.
AuthenticatingHandler(r, e) ==
    IF r.Path = AuthOnlyPath
    THEN AuthenticateOnly(r, FreshResponse, e)
    ELSE Proxy(r, FreshResponse, e)

\* The outcome o is what the state shows of the served request.
Observed(o) ==
    /\ o.w = rw
    /\ o.auth = authResult
    /\ o.calls = calls
    /\ o.upstream = upstream

\* The outcome o of the request without its cookie is the same as what the
\* state shows, but for the cookie the forwarded request itself carries.
SameAsObserved(o) ==
    /\ o.w = rw
    /\ o.auth = authResult
    /\ o.calls = calls
    /\ o.upstream = Nil <=> upstream = Nil
    /\ o.upstream # Nil =>
        Deref(o.upstream) = [Deref(upstream) EXCEPT !.Cookie = Nil]

\* C13: a request with a session cookie that fails verification is served,
\* under the same outcomes of the hooks, as the same request with no session
\* cookie: same status and page, same cookies set or cleared, same injected
\* headers, same locals of Authenticate, same collaborator calls, the
\* upstream reached or not alike.
C13_FailingCookieAsNoCookie ==
    (AuthRan /\ HasFailingCookie) =>
        \A e \in AuthEnvs :
            \A o \in {AuthenticatingHandler(req, e)} :
                Observed(o) =>
                    \A o2 \in {AuthenticatingHandler(WithoutCookie, e)} :
                        SameAsObserved(o2)

\* C13 witness: a request to a private page with a cookie signed under
\* another secret and no Authorization header got the 403 sign-in page.
C13_Witness ==
    /\ AuthRan
    /\ HasFailingCookie
    /\ Deref(req.Cookie).mac # CookieSeed
    /\ req.Path = PrivatePath
    /\ req.Header["Authorization"] = Empty
    /\ CallOutcome("LoadCookiedSession", "err")
    /\ rw.status = 403
    /\ upstream = Nil

\* Authenticate returned Accepted; the session it accepted.
Accepted == AuthRan /\ Auth.status = 202

AcceptedSession == Deref(Auth.session)

\* A header of the request the upstream router received.
Forwarded(name) == Deref(upstream).Header[name]

\* What the forwarded X-Forwarded-Email is when Authenticate sets the
\* forwarded identity: the session email if there is one, else what the
\* request came with.
ForwardedEmailWhenSet ==
    IF AcceptedSession.Email # Empty
    THEN AcceptedSession.Email
    ELSE req.Header["X-Forwarded-Email"]

\* The response headers of an Accepted request: X-Auth-Request-* under
\* their toggle, LAP-Auth always.
ResponseTrustHeaders ==
    /\ rw.XAuthRequestUser =
        IF SetXAuthRequest THEN AcceptedSession.User ELSE NoHeader
    /\ rw.XAuthRequestEmail =
        IF SetXAuthRequest THEN AcceptedSession.Email ELSE NoHeader
    /\ rw.LAPAuth = IF AcceptedSession.Email # Empty
                    THEN AcceptedSession.Email ELSE AcceptedSession.User

\* C14 as claimed: on Accepted, the outbound Basic-Auth credentials are set
\* iff PassBasicAuth is enabled, X-Forwarded-User is set iff PassUserHeaders
\* is enabled, X-Auth-Request-* iff SetXAuthRequest is enabled, LAP-Auth
\* always; on Forbidden or InternalError none is set.
C14_Claimed_IndependentToggles ==
    /\ (Accepted /\ upstream # Nil) =>
        /\ Forwarded("Authorization") =
                BasicAuthValue(AcceptedSession.User, BasicAuthPassword)
            <=> PassBasicAuth
        /\ Forwarded("X-Forwarded-User") = AcceptedSession.User
            <=> PassUserHeaders
    /\ Accepted => ResponseTrustHeaders
    /\ (AuthRan /\ Auth.status # 202) => NoResponseTrustHeaders /\ upstream = Nil

\* C14 as amended: on Accepted, the outbound Basic-Auth credentials (session
\* user, shared password) are set iff PassBasicAuth is enabled;
\* X-Forwarded-User is set to the session user iff PassUserHeaders or
\* PassBasicAuth is enabled, and X-Forwarded-Email with it when the session
\* has an email; X-Auth-Request-User is set on the response iff
\* SetXAuthRequest is enabled, X-Auth-Request-Email with it when the session
\* has an email; LAP-Auth is always set, to the email if there is one, else
\* the user.  A header that is not set is forwarded as the request had it.
\* On Forbidden or InternalError none is set and nothing is forwarded.
C14_TrustHeaders ==
    /\ (Accepted /\ upstream # Nil) =>
        /\ Forwarded("Authorization") =
            IF PassBasicAuth
            THEN BasicAuthValue(AcceptedSession.User, BasicAuthPassword)
            ELSE req.Header["Authorization"]
        /\ Forwarded("X-Forwarded-User") =
            IF PassUserHeaders \/ PassBasicAuth
            THEN AcceptedSession.User
            ELSE req.Header["X-Forwarded-User"]
        /\ Forwarded("X-Forwarded-Email") =
            IF PassUserHeaders \/ PassBasicAuth
            THEN ForwardedEmailWhenSet
            ELSE req.Header["X-Forwarded-Email"]
    /\ Accepted => ResponseTrustHeaders
    /\ (AuthRan /\ Auth.status # 202) => NoResponseTrustHeaders /\ upstream = Nil

\* C14 witness: PassBasicAuth alone is enabled and the request of a session
\* with an email is forwarded with the Basic-Auth credentials and both
\* X-Forwarded headers.
C14_Witness ==
    /\ Accepted
    /\ upstream # Nil
    /\ PassBasicAuth /\ ~PassUserHeaders /\ ~SetXAuthRequest
    /\ AcceptedSession.Email = EmailValid
    /\ Forwarded("X-Forwarded-User") = AcceptedSession.User
    /\ Forwarded("X-Forwarded-Email") = EmailValid
    /\ rw.LAPAuth = EmailValid
    /\ rw.XAuthRequestUser = NoHeader

\* C15 as claimed: no GET to the sign-in path contacts the directory
\* server, sets a session cookie or is answered with a 302 redirect.
C15_Claimed_GetOnlyRenders ==
    (Done /\ req.Path = SignInPath /\ req.Method = "GET") =>
        /\ ldapConn = NoConn
        /\ ~WasCalled("NewLDAPClient")
        /\ SessionCookiesSet = {}
        /\ rw.status # 302

\* The sign-in handler answered with a 302 redirect.
SignInRedirected == Done /\ WasCalled("ManualSignIn") /\ rw.status = 302

\* C16: every 302 the sign-in handler issues goes to the rd parameter when
\* that is non-empty, starts with "/" and does not start with "//", and to
\* "/" in every other case; so its Location starts with a single "/".
C16_RedirectTarget ==
    SignInRedirected =>
        /\ rw.Location = RedirectTarget
        /\ Len(rw.Location) >= 1
        /\ rw.Location[1] = "/"
        /\ Len(rw.Location) >= 2 => rw.Location[2] # "/"
        /\ rw.Location # req.Form.rd => rw.Location = <<"/">>

\* C16 witness: a sign-in with a scheme-relative rd is redirected to "/".
C16_Witness ==
    /\ SignInRedirected
    /\ req.Form.rd = <<"/", "/", "a">>
    /\ rw.Location = <<"/">>

\* After the provider-refresh hook the session is present, saveSession is
\* true and revalidated is false: the cookie verified, a refresh is due by
\* age, and the hook reported neither an error nor a refresh.
PendingUnrevalidatedSave ==
    /\ HasVerifiedCookie
    /\ CookieRefresh # 0
    /\ CookieAge > CookieRefresh
    /\ CallOutcome("RefreshSessionIfNeeded", "none")

\* Every call of the first name comes before every call of the second.
CalledBefore(first, second) ==
    \A i, j \in 1..Len(calls) :
        (calls[i][1] = first /\ calls[j][1] = second) => i < j

\* What follows a failed local validity check.
DroppedByValidityCheck ==
    /\ Auth.clearSession
    /\ ~Auth.saveSession
    /\ CookieCleared
    /\ ~WasCalled("SaveSession")
    /\ SessionCookiesSet = {}
    /\ Auth.status = 202 => SessionFromBasicAuth

\* C17 as claimed: whenever the session is present with a pending,
\* unrevalidated save after the hook, the local validity check is run, and
\* before the expiry check; it is never run when the hook reported a
\* refresh; when it fails the session is dropped, the cookie cleared and no
\* cookie re-signed.
C17_Claimed_ValidityBeforeExpiry ==
    AuthRan =>
        /\ PendingUnrevalidatedSave =>
            /\ WasCalled("ValidateSessionState")
            /\ CalledBefore("ValidateSessionState", "IsExpired")
        /\ CallOutcome("RefreshSessionIfNeeded", "ok") =>
            ~WasCalled("ValidateSessionState")
        /\ CallOutcome("ValidateSessionState", "false") => DroppedByValidityCheck

\* C17 as amended: the local validity check is run after the expiry check,
\* exactly when the session is present with a pending, unrevalidated save
\* after the hook and has not expired; it is never run when the hook
\* reported a refresh; when it fails the session is dropped, the cookie
\* cleared and no cookie re-signed.
C17_ValidityAfterExpiry ==
    AuthRan =>
        /\ WasCalled("ValidateSessionState") <=>
            (PendingUnrevalidatedSave /\ CookieAge <= CookieExpire)
        /\ CallCount("ValidateSessionState") <= 1
        /\ CalledBefore("IsExpired", "ValidateSessionState")
        /\ WasCalled("ValidateSessionState") => CallOutcome("IsExpired", "false")
        /\ CallOutcome("RefreshSessionIfNeeded", "ok") =>
            ~WasCalled("ValidateSessionState")
        /\ CallOutcome("ValidateSessionState", "false") => DroppedByValidityCheck

\* C17 witness: a session due for refresh, not expired, fails the local
\* validity check: the cookie is cleared and the request denied.
C17_Witness ==
    /\ AuthRan
    /\ PendingUnrevalidatedSave
    /\ CallOutcome("IsExpired", "false")
    /\ CallOutcome("ValidateSessionState", "false")
    /\ DroppedByValidityCheck
    /\ Auth.status = 403

\* A step of Authenticate dropped the session before the save step.
SessionDropped ==
    \/ CallOutcome("RefreshSessionIfNeeded", "err")
    \/ CallOutcome("IsExpired", "true")
    \/ CallOutcome("ValidateSessionState", "false")
    \/ CallOutcome("Validator", "false")

\* C18: in one run of Authenticate the session cookie is never both set and
\* cleared: clearSession is true exactly when a step dropped the session
\* before the save step, SaveSession is called only with the cookie session
\* present and then the Basic-Auth fallback is not tried; after a drop an
\* Accepted result comes from the Basic-Auth fallback only, and a run that
\* tries the fallback sets no session cookie.
C18_SaveOrClear ==
    AuthRan =>
        /\ ~(WasCalled("SaveSession") /\ Auth.clearSession)
        /\ ~(SessionCookiesSet # {} /\ CookieCleared)
        /\ Auth.clearSession <=> SessionDropped
        /\ Auth.clearSession =>
            /\ \E i \in 1..(Len(calls) - 1) :
                /\ calls[i][1] = "ClearSessionCookie"
                /\ calls[i + 1][1] = "CheckBasicAuth"
        /\ WasCalled("SaveSession") =>
            /\ Auth.session # Nil
            /\ HasVerifiedCookie
            /\ ~WasCalled("CheckBasicAuth")
        /\ (SessionDropped /\ Auth.status = 202) => SessionFromBasicAuth
        /\ WasCalled("CheckBasicAuth") => SessionCookiesSet = {}

\* C18 witness: the hook errors on a session whose refresh was due (a save
\* was pending): the cookie is cleared, not set, and the Basic-Auth
\* credentials of the request are what is accepted.
C18_Witness ==
    /\ AuthRan
    /\ RefreshIsDue
    /\ CallOutcome("RefreshSessionIfNeeded", "err")
    /\ Auth.saveSession
    /\ Auth.clearSession
    /\ CookieCleared
    /\ SessionCookiesSet = {}
    /\ Auth.status = 202
    /\ SessionFromBasicAuth

\* C19 as claimed: for every request forwarded after Accepted with
\* PassUserHeaders or PassBasicAuth enabled, the forwarded X-Forwarded-User
\* is the session user and the forwarded X-Forwarded-Email is absent or the
\* session email; no X-Forwarded value of the client reaches the upstream.
C19_Claimed_TrustedIdentityHeaders ==
    (Accepted /\ upstream # Nil /\ (PassUserHeaders \/ PassBasicAuth)) =>
        /\ Forwarded("X-Forwarded-User") = AcceptedSession.User
        /\ Forwarded("X-Forwarded-Email") \in {Empty, AcceptedSession.Email}

====
